---- MODULE Spec2Model ----
(***************************************************************************)
(* Model of honeytail's keyval parser (src/parsers/keyval/keyval.go).      *)
(*                                                                         *)
(* Go strings are sequences of one-character strings, so that trimming a   *)
(* prefix, matching a pattern and tokenizing are computed, not assumed.    *)
(* A Go map[string]interface{} is a function whose domain is the set of    *)
(* its keys; a typed value is a record [t, b, i, s] whose tag t names the  *)
(* dynamic type and whose other fields hold the payload of that type.      *)
(***************************************************************************)
EXTENDS Integers, Sequences, FiniteSets, TLC

(***************************************************************************)
(* Bounds of the model.                                                    *)
(***************************************************************************)
MaxParsers == 2      \* largest NumParsers explored
MaxLines   == 2      \* most lines the upstream producer sends
MaxLineLen == 3      \* longest generated line of the per-line specification
MaxValLen  == 3      \* longest generated token value of the ParseLine specification

(***************************************************************************)
(* Strings.                                                                *)
(***************************************************************************)
Digits == {"0", "1", "2", "3", "4", "5", "6", "7", "8", "9"}

DigitVal(c) ==
    CASE c = "0" -> 0 [] c = "1" -> 1 [] c = "2" -> 2 [] c = "3" -> 3
      [] c = "4" -> 4 [] c = "5" -> 5 [] c = "6" -> 6 [] c = "7" -> 7
      [] c = "8" -> 8 [] c = "9" -> 9

\* ASCII lower-casing of the letters that occur in the float literals
LowerChar(c) ==
    CASE c = "I" -> "i" [] c = "N" -> "n" [] c = "F" -> "f" [] c = "A" -> "a"
      [] c = "T" -> "t" [] c = "Y" -> "y" [] c = "E" -> "e"
      [] OTHER -> c

Lower(s) == [k \in 1..Len(s) |-> LowerChar(s[k])]

HasPrefix(s, pre) == Len(pre) <= Len(s) /\ SubSeq(s, 1, Len(pre)) = pre

\* strings.TrimPrefix
TrimPrefix(s, pre) ==
    IF HasPrefix(s, pre) THEN SubSeq(s, Len(pre) + 1, Len(s)) ELSE s

\* strings.Contains, which is what MatchString computes for a literal pattern
Contains(s, lit) ==
    \E k \in 1..(Len(s) - Len(lit) + 1) : SubSeq(s, k, k + Len(lit) - 1) = lit

\* position of the first occurrence of a character of cs in s, 0 if none
FirstIndex(s, cs) ==
    IF \E k \in 1..Len(s) : s[k] \in cs
    THEN CHOOSE k \in 1..Len(s) : s[k] \in cs /\ \A j \in 1..(k - 1) : s[j] \notin cs
    ELSE 0

(***************************************************************************)
(* Typed values stored in a parsed line.                                   *)
(***************************************************************************)
BoolV(b)   == [t |-> "bool",   b |-> b,     i |-> 0, s |-> <<>>]
IntV(n)    == [t |-> "int",    b |-> FALSE, i |-> n, s |-> <<>>]
\* a float64 keeps the text it was parsed from as its payload
FloatV(s)  == [t |-> "float",  b |-> FALSE, i |-> 0, s |-> s]
StringV(s) == [t |-> "string", b |-> FALSE, i |-> 0, s |-> s]

EmptyMap == <<>>

Put(m, k, v) == [x \in (DOMAIN m) \cup {k} |-> IF x = k THEN v ELSE m[x]]

(***************************************************************************)
(* strconv, as called by the value handler of ParseLine.                   *)
(***************************************************************************)
TrueLits  == { <<"1">>, <<"t">>, <<"T">>, <<"T","R","U","E">>,
               <<"t","r","u","e">>, <<"T","r","u","e">> }
FalseLits == { <<"0">>, <<"f">>, <<"F">>, <<"F","A","L","S","E">>,
               <<"f","a","l","s","e">>, <<"F","a","l","s","e">> }

\* a ParseBool that knows the words only, not the one-character forms
ParseBoolOkWordsOnly(s) == s \in TrueLits \cup FalseLits /\ Len(s) > 1

\* strconv.ParseBool(valStr) returns err == nil
ParseBoolOk(s) == s \in TrueLits \cup FalseLits

AllDigits(s) == \A k \in 1..Len(s) : s[k] \in Digits

StripSign(s) == IF Len(s) > 0 /\ s[1] \in {"+", "-"} THEN Tail(s) ELSE s

RECURSIVE DecVal(_)
DecVal(s) ==
    IF s = <<>> THEN 0
    ELSE 10 * DecVal(SubSeq(s, 1, Len(s) - 1)) + DigitVal(s[Len(s)])

\* strconv.Atoi(valStr) returns err == nil: an optional sign and one or more
\* decimal digits.  Every literal here is far shorter than the 19 digits at
\* which the 64-bit range check of Atoi could fail.
AtoiOk(s) == LET r == StripSign(s) IN Len(r) > 0 /\ AllDigits(r)

AtoiVal(s) ==
    IF Len(s) > 0 /\ s[1] = "-" THEN 0 - DecVal(StripSign(s)) ELSE DecVal(StripSign(s))

\* mantissa of a decimal float: digits with at most one '.', at least one digit
MantissaOk(m) ==
    LET dot == FirstIndex(m, {"."})
    IN  IF dot = 0 THEN Len(m) > 0 /\ AllDigits(m)
        ELSE /\ AllDigits(SubSeq(m, 1, dot - 1))
             /\ AllDigits(SubSeq(m, dot + 1, Len(m)))
             /\ Len(m) > 1

\* exponent of a decimal float, after the 'e': optional sign, one or more digits
ExponentOk(e) == LET r == StripSign(e) IN Len(r) > 0 /\ AllDigits(r)

\* strconv.ParseFloat(valStr, 64) returns err == nil: "inf", "infinity" (any
\* case, optionally signed), "nan" (any case, unsigned), or a decimal literal
\* [sign] mantissa [ e [sign] digits ].  The literals here are too short to
\* leave the range of a float64.
ParseFloatOk(s) ==
    LET r == StripSign(s)
        e == FirstIndex(r, {"e", "E"})
    IN  \/ Lower(r) \in { <<"i","n","f">>, <<"i","n","f","i","n","i","t","y">> }
        \/ Lower(s) = <<"n","a","n">>
        \/ /\ e = 0
           /\ MantissaOk(r)
        \/ /\ e > 0
           /\ MantissaOk(SubSeq(r, 1, e - 1))
           /\ ExponentOk(SubSeq(r, e + 1, Len(r)))

(***************************************************************************)
(* KeyValLineParser.ParseLine.                                             *)
(***************************************************************************)
\* f with the integer parse tried before the boolean parse
HandlerFIntFirst(parsed, key, val) ==
    IF AtoiOk(val) THEN Put(parsed, key, IntV(AtoiVal(val)))
    ELSE IF ParseBoolOk(val) THEN Put(parsed, key, BoolV(val \in TrueLits))
    ELSE IF ParseFloatOk(val) THEN Put(parsed, key, FloatV(val))
    ELSE Put(parsed, key, StringV(val))

\* the closure f: the value is stored under the first type whose parse of
\* the raw text succeeds; f always returns nil
HandlerF(parsed, key, val) ==
    IF ParseBoolOk(val) THEN Put(parsed, key, BoolV(val \in TrueLits))
    ELSE IF AtoiOk(val) THEN Put(parsed, key, IntV(AtoiVal(val)))
    ELSE IF ParseFloatOk(val) THEN Put(parsed, key, FloatV(val))
    ELSE Put(parsed, key, StringV(val))

NoError == "nil"
ErrUnterminatedString == "logfmt: unterminated string"

\* logfmt's ident_byte: any byte greater than ' ', excluding '=' and '"'
IdentByte(c) == c \notin {" ", "=", "\""}

\* logfmt.Unmarshal(line, HandlerFunc(f)): the scanner of the logfmt grammar
\*   message = { garbage, pair }, garbage      pair = key, '=', value | key, '=' | key
\*   value   = ident | '"', { string_byte }, '"'
\* st is the scanner state, i the read position, m the start of the token
\* being read, key the key of the pair being read, acc the handler's map and
\* the first error.  A key with no value is handed to f with an empty value.
\* (Backslash escapes inside quotes are outside the alphabet of the model.)
RECURSIVE Scan(_, _, _, _, _, _)
Scan(data, st, i, m, key, acc) ==
    LET n       == Len(data)
        c       == data[i]
        tok     == SubSeq(data, m, i - 1)
        h(k, v) == [acc EXCEPT !.parsed = HandlerF(acc.parsed, k, v)]
    IN  CASE st = "garbage" ->
               IF i > n THEN acc
               ELSE IF IdentByte(c) THEN Scan(data, "key", i + 1, i, <<>>, acc)
               ELSE Scan(data, "garbage", i + 1, m, key, acc)
          [] st = "key" ->
               IF i > n THEN h(tok, <<>>)
               ELSE IF IdentByte(c) THEN Scan(data, "key", i + 1, m, key, acc)
               ELSE IF c = "=" THEN Scan(data, "equal", i + 1, m, tok, acc)
               ELSE Scan(data, "garbage", i + 1, m, tok, h(tok, <<>>))
          [] st = "equal" ->
               IF i > n THEN h(key, <<>>)
               ELSE IF IdentByte(c) THEN Scan(data, "ivalue", i + 1, i, key, acc)
               ELSE IF c = "\"" THEN Scan(data, "qvalue", i + 1, i, key, acc)
               ELSE Scan(data, "garbage", i + 1, m, key, h(key, <<>>))
          [] st = "ivalue" ->
               IF i > n THEN h(key, tok)
               ELSE IF IdentByte(c) THEN Scan(data, "ivalue", i + 1, m, key, acc)
               ELSE Scan(data, "garbage", i + 1, m, key, h(key, tok))
          [] st = "qvalue" ->
               IF i > n THEN [acc EXCEPT !.err = ErrUnterminatedString]
               ELSE IF c = "\""
                    THEN Scan(data, "garbage", i + 1, m, key,
                              h(key, SubSeq(data, m + 1, i - 1)))
               ELSE Scan(data, "qvalue", i + 1, m, key, acc)

\* returns [parsed, err]
ParseLine(line) ==
    Scan(line, "garbage", 1, 1, <<>>, [parsed |-> EmptyMap, err |-> NoError])

(***************************************************************************)
(* allEmpty: every value of the map is the empty string.                   *)
(***************************************************************************)
allEmpty(pl) ==
    \A k \in DOMAIN pl : pl[k].t = "string" /\ pl[k].s = <<>>

(***************************************************************************)
(* Collaborators of the worker loop.                                       *)
(***************************************************************************)
\* nesting depth of parentheses after each prefix of a pattern
RECURSIVE ParenDepth(_)
ParenDepth(pat) ==
    IF pat = <<>> THEN 0
    ELSE ParenDepth(SubSeq(pat, 1, Len(pat) - 1))
         + (IF pat[Len(pat)] = "(" THEN 1 ELSE IF pat[Len(pat)] = ")" THEN -1 ELSE 0)

\* regexp.Compile(pattern) returns err == nil.  Patterns are made of literal
\* characters and groups: a ')' with no '(' open, or a '(' never closed, is
\* a syntax error.
CompileOk(pat) ==
    /\ ParenDepth(pat) = 0
    /\ \A k \in 1..Len(pat) : ParenDepth(SubSeq(pat, 1, k)) >= 0

IsParen(c) == c \in {"(", ")"}

\* the literal a pattern of literals and groups matches
StripParens(pat) == SelectSeq(pat, LAMBDA c : ~IsParen(c))

\* a *regexp.Regexp: nil, or the compiled pattern, which matches the literal lit
NilRegexp == [set |-> FALSE, lit |-> <<>>]
Regexp(pat) == [set |-> TRUE, lit |-> StripParens(pat)]

\* p.filterRegex.MatchString(line)
MatchString(re, line) == Contains(line, re.lit)

\* a *parsers.ExtRegexp: nil, or a literal pattern whose one named group,
\* name, captures the whole match
NilExtRegexp == [set |-> FALSE, lit |-> <<>>, name |-> <<>>]
ExtRegexp(lit, name) == [set |-> TRUE, lit |-> lit, name |-> name]

\* prefixRegex.FindStringSubmatchMap(line): the matched text and the named
\* captures, or the empty string and no fields when nothing matches
FindStringSubmatchMap(re, line) ==
    IF Contains(line, re.lit)
    THEN [prefix |-> re.lit, fields |-> Put(EmptyMap, re.name, re.lit)]
    ELSE [prefix |-> <<>>, fields |-> EmptyMap]

\* httime.GetTimestamp(parsedLine, TimeFieldName, TimeFieldFormat): the value
\* of the time field when the mapping has one, the current time otherwise
GetTimestamp(m, name, format) ==
    IF name # <<>> /\ name \in DOMAIN m
    THEN [src |-> "field", raw |-> m[name], format |-> format]
    ELSE [src |-> "now", raw |-> StringV(<<>>), format |-> format]

\* calls of package reporting
NoReport == [fn |-> "none", line |-> <<>>, msg |-> "", matched |-> "unset"]
SkipWithFields(line, msg, matched) ==
    [fn |-> "SkipWithFields", line |-> line, msg |-> msg,
     matched |-> IF matched THEN "true" ELSE "false"]
ParseError(line, err) ==
    [fn |-> "ParseError", line |-> line, msg |-> err, matched |-> "unset"]
Skip(line, msg) ==
    [fn |-> "Skip", line |-> line, msg |-> msg, matched |-> "unset"]

NoTimestamp == [src |-> "none", raw |-> StringV(<<>>), format |-> <<>>]
NoEvent == [Timestamp |-> NoTimestamp, Data |-> EmptyMap]

(***************************************************************************)
(* Parser.Init and the body of the worker loop of ProcessLines.            *)
(***************************************************************************)
ErrRegexpSyntax == "error parsing regexp"

\* Init that drops the error of regexp.Compile
InitErrSwallowed(options) == NoError

\* the error Parser.Init returns: that of regexp.Compile, which is called
\* only when FilterRegex is not ""
InitErr(options) ==
    IF options.FilterRegex # <<>> /\ ~CompileOk(options.FilterRegex)
    THEN ErrRegexpSyntax ELSE NoError

\* the Parser before Init
ZeroParser ==
    [conf        |-> [TimeFieldName |-> <<>>, TimeFieldFormat |-> <<>>,
                      FilterRegex |-> <<>>, InvertFilter |-> FALSE,
                      NumParsers |-> 0],
     filterRegex |-> NilRegexp,
     lineParser  |-> "nil"]

\* the Parser after Init: conf is set first; filterRegex is what
\* regexp.Compile returned, nil with an error; lineParser is set only when
\* Init gets to its end
ParserInit(options) ==
    [conf        |-> options,
     filterRegex |-> IF options.FilterRegex # <<>> /\ CompileOk(options.FilterRegex)
                     THEN Regexp(options.FilterRegex) ELSE NilRegexp,
     lineParser  |-> IF InitErr(options) = NoError THEN "KeyValLineParser"
                     ELSE "nil"]

\* the filter with the comparison turned around: skip when matched != InvertFilter
FilterSkipsFlipped(p, line) ==
    p.filterRegex.set /\ MatchString(p.filterRegex, line) # p.conf.InvertFilter

\* the filter that never looks at InvertFilter: skip when the line does not match
FilterSkipsIgnoreInvert(p, line) ==
    p.filterRegex.set /\ ~MatchString(p.filterRegex, line)

\* the filter: skip when a filter is set and matched == InvertFilter
FilterSkips(p, line) ==
    p.filterRegex.set /\ MatchString(p.filterRegex, line) = p.conf.InvertFilter

\* the headers on the line: the fields and the line without the prefix
TakeHeaders(prefixRegex, line) ==
    IF prefixRegex.set
    THEN LET pm == FindStringSubmatchMap(prefixRegex, line)
         IN  [fields |-> pm.fields, line |-> TrimPrefix(line, pm.prefix)]
    ELSE [fields |-> EmptyMap, line |-> line]

\* the checks with the empty-map check made before the error check
RejectionEmptyFirst(line, parsedLine, err) ==
    IF Cardinality(DOMAIN parsedLine) = 0
    THEN Skip(line, "no key/val pairs found")
    ELSE IF err # NoError THEN ParseError(line, err)
    ELSE IF \A k \in DOMAIN parsedLine :
                parsedLine[k].t = "string" /\ parsedLine[k].s = <<>>
         THEN Skip(line, "all values are the empty string")
    ELSE NoReport

\* the three checks after ParseLine, in the order of the code: the report
\* made for (line, parsedLine, err), NoReport when the line goes on
Rejection(line, parsedLine, err) ==
    IF err # NoError THEN ParseError(line, err)
    ELSE IF Cardinality(DOMAIN parsedLine) = 0
         THEN Skip(line, "no key/val pairs found")
    ELSE IF allEmpty(parsedLine)
         THEN Skip(line, "all values are the empty string")
    ELSE NoReport

\* a merge that keeps the tokenized value of a key the header also has
MergeFieldsTokenWins(parsedLine, prefixFields) ==
    [k \in (DOMAIN parsedLine) \cup (DOMAIN prefixFields) |->
        IF k \in DOMAIN parsedLine THEN parsedLine[k] ELSE StringV(prefixFields[k])]

\* for k, v := range prefixFields { parsedLine[k] = v }
MergeFields(parsedLine, prefixFields) ==
    [k \in (DOMAIN parsedLine) \cup (DOMAIN prefixFields) |->
        IF k \in DOMAIN prefixFields THEN StringV(prefixFields[k]) ELSE parsedLine[k]]

\* the event with the timestamp taken from the mapping before the merge
MakeEventTimestampFirst(p, parsedLine, prefixFields) ==
    [Timestamp |-> GetTimestamp(parsedLine, p.conf.TimeFieldName,
                                p.conf.TimeFieldFormat),
     Data      |-> MergeFields(parsedLine, prefixFields)]

\* the event sent for a line that passed every check
MakeEvent(p, parsedLine, prefixFields) ==
    LET merged == MergeFields(parsedLine, prefixFields)
    IN  [Timestamp |-> GetTimestamp(merged, p.conf.TimeFieldName,
                                    p.conf.TimeFieldFormat),
         Data      |-> merged]

\* the loop body with the header fields merged in before the three checks
ProcessLineMergeFirst(p, prefixRegex, rawLine) ==
    IF FilterSkips(p, rawLine)
    THEN [emit   |-> FALSE, event |-> NoEvent,
          report |-> SkipWithFields(rawLine, "due to provided filter_regex",
                                    MatchString(p.filterRegex, rawLine)),
          calls  |-> <<"MatchString", "SkipWithFields">>]
    ELSE LET hd     == TakeHeaders(prefixRegex, rawLine)
             parsed == ParseLine(hd.line)
             merged == MergeFields(parsed.parsed, hd.fields)
             rej    == Rejection(hd.line, merged, parsed.err)
             pre    == (IF p.filterRegex.set THEN <<"MatchString">> ELSE <<>>)
                       \o (IF prefixRegex.set THEN <<"FindStringSubmatchMap">>
                           ELSE <<>>)
                       \o <<"ParseLine">>
         IN  IF rej # NoReport
             THEN [emit |-> FALSE, event |-> NoEvent, report |-> rej,
                   calls |-> pre \o <<rej.fn>>]
             ELSE [emit |-> TRUE,
                   event |-> MakeEvent(p, parsed.parsed, hd.fields),
                   report |-> NoReport,
                   calls |-> pre \o <<"merge", "GetTimestamp", "send">>]

\* the loop body with the prefix taken off before the filter looks at the line
ProcessLineFilterLate(p, prefixRegex, rawLine) ==
    LET hd  == TakeHeaders(prefixRegex, rawLine)
        pre == (IF prefixRegex.set THEN <<"FindStringSubmatchMap">> ELSE <<>>)
               \o (IF p.filterRegex.set THEN <<"MatchString">> ELSE <<>>)
    IN  IF FilterSkips(p, hd.line)
        THEN [emit   |-> FALSE, event |-> NoEvent,
              report |-> SkipWithFields(rawLine, "due to provided filter_regex",
                                        MatchString(p.filterRegex, hd.line)),
              calls  |-> pre \o <<"SkipWithFields">>]
        ELSE LET parsed == ParseLine(hd.line)
                 rej    == Rejection(hd.line, parsed.parsed, parsed.err)
             IN  IF rej # NoReport
                 THEN [emit |-> FALSE, event |-> NoEvent, report |-> rej,
                       calls |-> pre \o <<"ParseLine", rej.fn>>]
                 ELSE [emit |-> TRUE,
                       event |-> MakeEvent(p, parsed.parsed, hd.fields),
                       report |-> NoReport,
                       calls |-> pre \o <<"ParseLine", "merge", "GetTimestamp",
                                          "send">>]

\* one iteration of the loop for one line: what is reported, what is sent,
\* and the stages run, in order: the collaborators called and the merge loop
ProcessLine(p, prefixRegex, rawLine) ==
    IF FilterSkips(p, rawLine)
    THEN [emit   |-> FALSE, event |-> NoEvent,
          report |-> SkipWithFields(rawLine, "due to provided filter_regex",
                                    MatchString(p.filterRegex, rawLine)),
          calls  |-> <<"MatchString", "SkipWithFields">>]
    ELSE LET hd     == TakeHeaders(prefixRegex, rawLine)
             parsed == ParseLine(hd.line)
             rej    == Rejection(hd.line, parsed.parsed, parsed.err)
             pre    == (IF p.filterRegex.set THEN <<"MatchString">> ELSE <<>>)
                       \o (IF prefixRegex.set THEN <<"FindStringSubmatchMap">>
                           ELSE <<>>)
                       \o <<"ParseLine">>
         IN  IF rej # NoReport
             THEN [emit |-> FALSE, event |-> NoEvent, report |-> rej,
                   calls |-> pre \o <<rej.fn>>]
             ELSE [emit |-> TRUE,
                   event |-> MakeEvent(p, parsed.parsed, hd.fields),
                   report |-> NoReport,
                   calls |-> pre \o <<"merge", "GetTimestamp", "send">>]

(***************************************************************************)
(* State.                                                                  *)
(***************************************************************************)
VARIABLES
    p,            \* the Parser after Init: conf and filterRegex
    prefixRegex,  \* the prefixRegex argument of ProcessLines
    lines,        \* the lines channel: lines sent and not yet received
    closed,       \* the lines channel has been closed
    input,        \* the lines the producer has sent so far, in order
    pcMain,       \* where ProcessLines is: "loop", "wait", "returned"
    i,            \* the loop counter of ProcessLines
    wg,           \* the WaitGroup counter
    pc,           \* per worker: "unborn", "recv", "body", "send", "done"
    cur,          \* per worker: the line received, with its position in the input
    ev,           \* per worker: the event it is sending
    send,         \* the events the sink has accepted, in order
    reports,      \* the calls made to package reporting, in order
    tline,        \* per-line specifications: the line given
    tout,         \* per-line specifications: the result of the last run
    tprev,        \* per-line specifications: the result of the run before it
    tpc,          \* per-line specifications: "ready", "done"; "off" in the pool
    opts,         \* the Options the caller hands to Parser.Init
    initErr,      \* what Parser.Init returned: "uncalled", NoError or an error
    ctxDone       \* the context handed to ProcessLines has been cancelled

poolVars == <<lines, closed, input, pcMain, i, wg, pc, cur, ev, send, reports>>
lineVars == <<tline, tout, tprev, tpc>>
callerVars == <<opts, initErr, ctxDone>>
vars == <<p, prefixRegex, lines, closed, input, pcMain, i, wg, pc, cur, ev,
          send, reports, tline, tout, tprev, tpc, opts, initErr, ctxDone>>

Workers == 1..MaxParsers

NoLine == [id |-> 0, text |-> <<>>]
NoResult == [emit |-> FALSE, event |-> NoEvent, report |-> NoReport, calls |-> <<>>]

(***************************************************************************)
(* Inputs of the pool specification.                                       *)
(***************************************************************************)
\* a=1 (an event), b=2 (an event, no "a" for the filter), b= (every value
\* empty)
PoolLines == { <<"a", "=", "1">>, <<"b", "=", "2">>, <<"b", "=">> }

Options(filter, invert, n) ==
    [TimeFieldName |-> <<>>, TimeFieldFormat |-> <<>>, FilterRegex |-> filter,
     InvertFilter |-> invert, NumParsers |-> n]

\* no filter, the filter "a", the filter "a" inverted
PoolFilters == { <<<<>>, FALSE>>, <<<<"a">>, FALSE>>, <<<<"a">>, TRUE>> }

PoolOptions ==
    { Options(f[1], f[2], n) : f \in PoolFilters, n \in 0..MaxParsers }

LinesOff ==
    /\ tline = <<>>
    /\ tout = NoResult
    /\ tprev = NoResult
    /\ tpc = "off"

\* ProcessLines has been called on a Parser that Init has set up; the
\* producer has sent nothing yet
Init ==
    /\ p \in { ParserInit(o) : o \in PoolOptions }
    /\ prefixRegex = NilExtRegexp
    /\ lines = <<>>
    /\ closed = FALSE
    /\ input = <<>>
    /\ pcMain = "loop"
    /\ i = 0
    /\ wg = 0
    /\ pc = [w \in Workers |-> "unborn"]
    /\ cur = [w \in Workers |-> NoLine]
    /\ ev = [w \in Workers |-> NoEvent]
    /\ send = <<>>
    /\ reports = <<>>
    /\ LinesOff
    /\ opts = p.conf
    /\ initErr = NoError
    /\ ctxDone = FALSE

(***************************************************************************)
(* The producer of the lines channel (the caller's side).                  *)
(***************************************************************************)
Produce(l) ==
    /\ ~closed
    /\ Len(input) < MaxLines
    /\ input' = Append(input, l)
    /\ lines' = Append(lines, [id |-> Len(input) + 1, text |-> l])
    /\ UNCHANGED <<p, prefixRegex, closed, pcMain, i, wg, pc, cur, ev, send,
                   reports, lineVars, callerVars>>

Close ==
    /\ ~closed
    /\ closed' = TRUE
    /\ UNCHANGED <<p, prefixRegex, lines, input, pcMain, i, wg, pc, cur, ev,
                   send, reports, lineVars, callerVars>>

(***************************************************************************)
(* ProcessLines: the dispatcher.                                           *)
(***************************************************************************)
\* Spawn with the loop condition i <= NumParsers
SpawnOffByOne ==
    /\ pcMain = "loop"
    /\ i <= p.conf.NumParsers
    /\ i < MaxParsers
    /\ wg' = wg + 1
    /\ pc' = [pc EXCEPT ![i + 1] = "recv"]
    /\ i' = i + 1
    /\ UNCHANGED <<p, prefixRegex, lines, closed, input, pcMain, cur, ev,
                   send, reports, lineVars, callerVars>>

\* one iteration of the for loop: wg.Add(1); go func() {...}()
Spawn ==
    /\ pcMain = "loop"
    /\ i < p.conf.NumParsers
    /\ wg' = wg + 1
    /\ pc' = [pc EXCEPT ![i + 1] = "recv"]
    /\ i' = i + 1
    /\ UNCHANGED <<p, prefixRegex, lines, closed, input, pcMain, cur, ev,
                   send, reports, lineVars, callerVars>>

\* the loop condition fails: on to wg.Wait()
LoopExit ==
    /\ pcMain = "loop"
    /\ ~(i < p.conf.NumParsers)
    /\ pcMain' = "wait"
    /\ UNCHANGED <<p, prefixRegex, lines, closed, input, i, wg, pc, cur, ev,
                   send, reports, lineVars, callerVars>>

\* ProcessLines returning without wg.Wait()
WaitReturnNoWait ==
    /\ pcMain = "wait"
    /\ pcMain' = "returned"
    /\ UNCHANGED <<p, prefixRegex, lines, closed, input, i, wg, pc, cur, ev,
                   send, reports, lineVars, callerVars>>

\* wg.Wait() returns when the counter is zero, and ProcessLines returns
WaitReturn ==
    /\ pcMain = "wait"
    /\ wg = 0
    /\ pcMain' = "returned"
    /\ UNCHANGED <<p, prefixRegex, lines, closed, input, i, wg, pc, cur, ev,
                   send, reports, lineVars, callerVars>>

(***************************************************************************)
(* ProcessLines: a worker goroutine.                                       *)
(***************************************************************************)
\* Recv of a worker that does not wait for the sink: the event it was
\* sending is dropped for the next line
RecvWhileSending(w) ==
    /\ pc[w] \in {"recv", "send"}
    /\ lines # <<>>
    /\ cur' = [cur EXCEPT ![w] = Head(lines)]
    /\ lines' = Tail(lines)
    /\ pc' = [pc EXCEPT ![w] = "body"]
    /\ UNCHANGED <<p, prefixRegex, closed, input, pcMain, i, wg, ev, send,
                   reports, lineVars, callerVars>>

\* Recv from a channel that hands out the newest line first
RecvNewest(w) ==
    /\ pc[w] = "recv"
    /\ lines # <<>>
    /\ cur' = [cur EXCEPT ![w] = lines[Len(lines)]]
    /\ lines' = SubSeq(lines, 1, Len(lines) - 1)
    /\ pc' = [pc EXCEPT ![w] = "body"]
    /\ UNCHANGED <<p, prefixRegex, closed, input, pcMain, i, wg, ev, send,
                   reports, lineVars, callerVars>>

\* for line := range lines: a line is received
Recv(w) ==
    /\ pc[w] = "recv"
    /\ lines # <<>>
    /\ cur' = [cur EXCEPT ![w] = Head(lines)]
    /\ lines' = Tail(lines)
    /\ pc' = [pc EXCEPT ![w] = "body"]
    /\ UNCHANGED <<p, prefixRegex, closed, input, pcMain, i, wg, ev, send,
                   reports, lineVars, callerVars>>

\* Exit that leaves the loop as soon as the channel is closed, drained or not
ExitOnClose(w) ==
    /\ pc[w] = "recv"
    /\ closed
    /\ pc' = [pc EXCEPT ![w] = "done"]
    /\ wg' = wg - 1
    /\ UNCHANGED <<p, prefixRegex, lines, closed, input, pcMain, i, cur, ev,
                   send, reports, lineVars, callerVars>>

\* Exit without wg.Done()
ExitNoDone(w) ==
    /\ pc[w] = "recv"
    /\ lines = <<>>
    /\ closed
    /\ pc' = [pc EXCEPT ![w] = "done"]
    /\ UNCHANGED <<p, prefixRegex, lines, closed, input, pcMain, i, wg, cur, ev,
                   send, reports, lineVars, callerVars>>

\* Exit of a loop that also selects on ctx.Done()
ExitOnCancel(w) ==
    /\ pc[w] = "recv"
    /\ ctxDone \/ (lines = <<>> /\ closed)
    /\ pc' = [pc EXCEPT ![w] = "done"]
    /\ wg' = wg - 1
    /\ UNCHANGED <<p, prefixRegex, lines, closed, input, pcMain, i, cur, ev,
                   send, reports, lineVars, callerVars>>

\* for line := range lines: the channel is closed and empty; wg.Done()
Exit(w) ==
    /\ pc[w] = "recv"
    /\ lines = <<>>
    /\ closed
    /\ pc' = [pc EXCEPT ![w] = "done"]
    /\ wg' = wg - 1
    /\ UNCHANGED <<p, prefixRegex, lines, closed, input, pcMain, i, cur, ev,
                   send, reports, lineVars, callerVars>>

\* Body without the continue after a reporting call: the line is reported
\* and an event is sent for it as well
BodyNoContinue(w) ==
    /\ pc[w] = "body"
    /\ LET r == ProcessLine(p, prefixRegex, cur[w].text)
       IN  /\ ev' = [ev EXCEPT ![w] = r.event]
           /\ pc' = [pc EXCEPT ![w] = "send"]
           /\ reports' = IF r.emit THEN reports
                         ELSE Append(reports,
                                     [call |-> r.report, id |-> cur[w].id, w |-> w])
    /\ UNCHANGED <<p, prefixRegex, lines, closed, input, pcMain, i, wg, send,
                   cur, lineVars, callerVars>>

\* Body with return in place of continue after a reporting call
BodyReturnOnReject(w) ==
    /\ pc[w] = "body"
    /\ LET r == ProcessLine(p, prefixRegex, cur[w].text)
       IN  IF r.emit
           THEN /\ ev' = [ev EXCEPT ![w] = r.event]
                /\ pc' = [pc EXCEPT ![w] = "send"]
                /\ UNCHANGED <<reports, cur, wg>>
           ELSE /\ reports' = Append(reports,
                                     [call |-> r.report, id |-> cur[w].id, w |-> w])
                /\ pc' = [pc EXCEPT ![w] = "done"]
                /\ cur' = [cur EXCEPT ![w] = NoLine]
                /\ wg' = wg - 1
                /\ UNCHANGED ev
    /\ UNCHANGED <<p, prefixRegex, lines, closed, input, pcMain, i, send,
                   lineVars, callerVars>>

\* the loop body up to the send: the line is reported and the worker
\* continues with the next one, or its event is ready to be sent
Body(w) ==
    /\ pc[w] = "body"
    /\ LET r == ProcessLine(p, prefixRegex, cur[w].text)
       IN  IF r.emit
           THEN /\ ev' = [ev EXCEPT ![w] = r.event]
                /\ pc' = [pc EXCEPT ![w] = "send"]
                /\ UNCHANGED <<reports, cur>>
           ELSE /\ reports' = Append(reports,
                                     [call |-> r.report, id |-> cur[w].id, w |-> w])
                /\ pc' = [pc EXCEPT ![w] = "recv"]
                /\ cur' = [cur EXCEPT ![w] = NoLine]
                /\ UNCHANGED ev
    /\ UNCHANGED <<p, prefixRegex, lines, closed, input, pcMain, i, wg, send,
                   lineVars, callerVars>>

\* send <- e: the sink accepts the event
Send(w) ==
    /\ pc[w] = "send"
    /\ send' = Append(send, [e |-> ev[w], id |-> cur[w].id, w |-> w])
    /\ pc' = [pc EXCEPT ![w] = "recv"]
    /\ cur' = [cur EXCEPT ![w] = NoLine]
    /\ ev' = [ev EXCEPT ![w] = NoEvent]
    /\ UNCHANGED <<p, prefixRegex, lines, closed, input, pcMain, i, wg,
                   reports, lineVars, callerVars>>

Next ==
    \/ \E l \in PoolLines : Produce(l)
    \/ Close
    \/ Spawn
    \/ LoopExit
    \/ WaitReturn
    \/ \E w \in Workers : Recv(w)
    \/ \E w \in Workers : Exit(w)
    \/ \E w \in Workers : Body(w)
    \/ \E w \in Workers : Send(w)

Spec == Init /\ [][Next]_vars

(***************************************************************************)
(* The pool under the scheduling the Go runtime gives: a goroutine that    *)
(* can take a step eventually takes it, and the sink eventually accepts    *)
(* every event offered to it.  Nothing is assumed of the producer.         *)
(***************************************************************************)
Fairness ==
    /\ WF_vars(Spawn)
    /\ WF_vars(LoopExit)
    /\ WF_vars(WaitReturn)
    /\ \A w \in Workers : WF_vars(Recv(w) \/ Exit(w) \/ Body(w))
    /\ \A w \in Workers : WF_vars(Send(w))

\* the same pool on a smaller universe of inputs: no filter, and the lines
\* a=1 (an event) and b= (rejected)
LiveLines == { <<"a", "=", "1">>, <<"b", "=">> }

InitLive == Init /\ ~p.filterRegex.set

NextLive ==
    \/ \E l \in LiveLines : Produce(l)
    \/ Close
    \/ Spawn
    \/ LoopExit
    \/ WaitReturn
    \/ \E w \in Workers : Recv(w)
    \/ \E w \in Workers : Exit(w)
    \/ \E w \in Workers : Body(w)
    \/ \E w \in Workers : Send(w)

LiveSpec == InitLive /\ [][NextLive]_vars /\ Fairness

\* the same, with nothing assumed of the sink either: only the goroutines
\* of ProcessLines are scheduled fairly
SchedFairness ==
    /\ WF_vars(Spawn)
    /\ WF_vars(LoopExit)
    /\ WF_vars(WaitReturn)
    /\ \A w \in Workers : WF_vars(Recv(w) \/ Exit(w) \/ Body(w))

SchedSpec == InitLive /\ [][NextLive]_vars /\ SchedFairness

(***************************************************************************)
(* The pool with a caller that may cancel the context it handed to         *)
(* ProcessLines, at any time.                                              *)
(***************************************************************************)
Cancel ==
    /\ ~ctxDone
    /\ ctxDone' = TRUE
    /\ UNCHANGED <<p, prefixRegex, poolVars, lineVars, opts, initErr>>

NextCancel ==
    \/ Cancel
    \/ \E l \in LiveLines : Produce(l)
    \/ Close
    \/ Spawn
    \/ LoopExit
    \/ WaitReturn
    \/ \E w \in Workers : Recv(w)
    \/ \E w \in Workers : Exit(w)
    \/ \E w \in Workers : Body(w)
    \/ \E w \in Workers : Send(w)

SpecCancel == InitLive /\ [][NextCancel]_vars

(***************************************************************************)
(* The caller: Parser.Init on the options, then ProcessLines only when     *)
(* Init returned no error.                                                 *)
(***************************************************************************)
\* "", two patterns that compile, three that do not
StartPatterns ==
    { <<>>, <<"a">>, <<"(", "a", ")">>, <<"(">>, <<"a", ")">>, <<")", "(">> }

StartOptions ==
    { Options(f, FALSE, n) : f \in StartPatterns, n \in 0..MaxParsers }

InitStart ==
    /\ opts \in StartOptions
    /\ p = ZeroParser
    /\ initErr = "uncalled"
    /\ ctxDone = FALSE
    /\ prefixRegex = NilExtRegexp
    /\ lines = <<>>
    /\ closed = FALSE
    /\ input = <<>>
    /\ pcMain = "new"
    /\ i = 0
    /\ wg = 0
    /\ pc = [w \in Workers |-> "unborn"]
    /\ cur = [w \in Workers |-> NoLine]
    /\ ev = [w \in Workers |-> NoEvent]
    /\ send = <<>>
    /\ reports = <<>>
    /\ LinesOff

\* err := parser.Init(&opts)
CallInit ==
    /\ pcMain = "new"
    /\ p' = ParserInit(opts)
    /\ initErr' = InitErr(opts)
    /\ pcMain' = "inited"
    /\ UNCHANGED <<prefixRegex, lines, closed, input, i, wg, pc, cur, ev, send,
                   reports, lineVars, opts, ctxDone>>

\* Init returned nil: the caller calls ProcessLines
CallerStart ==
    /\ pcMain = "inited"
    /\ initErr = NoError
    /\ pcMain' = "loop"
    /\ UNCHANGED <<p, prefixRegex, lines, closed, input, i, wg, pc, cur, ev,
                   send, reports, lineVars, callerVars>>

\* Init returned an error: the caller gives up and ProcessLines is not called
CallerAbort ==
    /\ pcMain = "inited"
    /\ initErr # NoError
    /\ pcMain' = "aborted"
    /\ UNCHANGED <<p, prefixRegex, lines, closed, input, i, wg, pc, cur, ev,
                   send, reports, lineVars, callerVars>>

NextStart ==
    \/ CallInit
    \/ CallerStart
    \/ CallerAbort
    \/ \E l \in LiveLines : Produce(l)
    \/ Close
    \/ Spawn
    \/ LoopExit
    \/ WaitReturn
    \/ \E w \in Workers : Recv(w)
    \/ \E w \in Workers : Exit(w)
    \/ \E w \in Workers : Body(w)
    \/ \E w \in Workers : Send(w)

SpecStart == InitStart /\ [][NextStart]_vars

(***************************************************************************)
(* The loop body on one line, run on every line and configuration of a     *)
(* bounded universe; then run again with InvertFilter toggled.             *)
(***************************************************************************)
PoolOff ==
    /\ lines = <<>>
    /\ closed = FALSE
    /\ input = <<>>
    /\ pcMain = "off"
    /\ i = 0
    /\ wg = 0
    /\ pc = [w \in Workers |-> "unborn"]
    /\ cur = [w \in Workers |-> NoLine]
    /\ ev = [w \in Workers |-> NoEvent]
    /\ send = <<>>
    /\ reports = <<>>

\* every string over alpha of length at most n
Strings(alpha, n) == UNION { [1..k -> alpha] : k \in 0..n }

LineAlphabet == {"a", "1", "=", " ", "\""}

\* longer lines: a stripped prefix before a pair, an unterminated quote after
\* a pair, two pairs, a quoted empty value, a quoted value
ExampleLines ==
    { <<"1", "a", "=", "1">>,
      <<"1", "a", "=", "a", "1">>,
      <<"a", " ", "1", "=", "\"">>,
      <<"a", "=", "1", " ", "1", "=", "\"">>,
      <<"a", "=", "1", " ", "1", "=", "a">>,
      <<"a", "=", "\"", "\"">>,
      <<"a", "=", "\"", "a", " ", "1", "\"">> }

LineUniverse == Strings(LineAlphabet, MaxLineLen) \cup ExampleLines

LineOptions ==
    { [TimeFieldName |-> tf, TimeFieldFormat |-> <<>>, FilterRegex |-> f,
       InvertFilter |-> inv, NumParsers |-> 1] :
         tf \in {<<>>, <<"a">>}, f \in {<<>>, <<"a">>, <<"1">>, <<"=", "1">>},
         inv \in BOOLEAN }

LinePrefixes ==
    { NilExtRegexp, ExtRegexp(<<"1">>, <<"a">>), ExtRegexp(<<"1">>, <<"1", "1">>) }

InitLine ==
    /\ p \in { ParserInit(o) : o \in LineOptions }
    /\ prefixRegex \in LinePrefixes
    /\ tline \in LineUniverse
    /\ tout = NoResult
    /\ tprev = NoResult
    /\ tpc = "ready"
    /\ PoolOff
    /\ opts = p.conf
    /\ initErr = NoError
    /\ ctxDone = FALSE

\* one iteration of the worker loop on tline
RunLine ==
    /\ tpc \in {"ready", "ready2"}
    /\ tprev' = tout
    /\ tout' = ProcessLine(p, prefixRegex, tline)
    /\ tpc' = IF tpc = "ready" THEN "done" ELSE "done2"
    /\ UNCHANGED <<p, prefixRegex, tline, poolVars, callerVars>>

\* the same options with InvertFilter toggled, through Init again
ToggleInvert ==
    /\ tpc = "done"
    /\ p' = ParserInit([p.conf EXCEPT !.InvertFilter = ~@])
    /\ tpc' = "ready2"
    /\ UNCHANGED <<prefixRegex, tline, tout, tprev, poolVars, callerVars>>

NextLine == RunLine \/ ToggleInvert

SpecLine == InitLine /\ [][NextLine]_vars

(***************************************************************************)
(* ParseLine on a line k=<value>, for every value of a bounded universe.   *)
(***************************************************************************)
ValueAlphabet == {"0", "1", "7", "-", ".", "e", "t", "x"}

ExampleValues ==
    { <<"t", "r", "u", "e">>, <<"f", "a", "l", "s", "e">>, <<"T", "R", "U", "E">>,
      <<"t", "R", "u", "e">>, <<"4", "2">>, <<"3", ".", "1", "4">>,
      <<"4", "2", "x">>, <<"+", "4", "2">>, <<"-", "1", ".", "5", "e", "+", "3">>,
      <<"i", "n", "f">>, <<"-", "I", "n", "f">>, <<"N", "a", "N">>,
      <<"+", "n", "a", "n">>, <<"i", "n", "f", "i">>, <<"G", "E", "T">>,
      <<"f">>, <<"T">>, <<"F">>, <<"+", "1">> }

ValueUniverse == Strings(ValueAlphabet, MaxValLen) \cup ExampleValues

InitParse ==
    /\ p = ParserInit(Options(<<>>, FALSE, 1))
    /\ prefixRegex = NilExtRegexp
    /\ tline \in { <<"k", "=">> \o v : v \in ValueUniverse }
    /\ tout = [parsed |-> EmptyMap, err |-> NoError]
    /\ tprev = NoResult
    /\ tpc = "ready"
    /\ PoolOff
    /\ opts = p.conf
    /\ initErr = NoError
    /\ ctxDone = FALSE

\* p.lineParser.ParseLine(line)
RunParseLine ==
    /\ tpc = "ready"
    /\ tout' = ParseLine(tline)
    /\ tpc' = "done"
    /\ UNCHANGED <<p, prefixRegex, tline, tprev, poolVars, callerVars>>

NextParse == RunParseLine

SpecParse == InitParse /\ [][NextParse]_vars

(***************************************************************************)
(* Properties of the pool.                                                 *)
(***************************************************************************)
NumParsers == p.conf.NumParsers

EventsOf(id)  == { k \in 1..Len(send) : send[k].id = id }
ReportsOf(id) == { k \in 1..Len(reports) : reports[k].id = id }

InChannel(id) == \E k \in 1..Len(lines) : lines[k].id = id
HeldBy(id)    == { w \in Workers : pc[w] \in {"body", "send"} /\ cur[w].id = id }

\* the line passes the filter and every rejection rule
Valid(text) == ProcessLine(p, prefixRegex, text).emit

LiveWorkers == { w \in Workers : pc[w] \in {"recv", "body", "send"} }

Drained == closed /\ lines = <<>>

\* C1: with NumParsers >= 1 and an input of M lines that all pass the filter
\* and the rejection rules, once the input is closed and the sink accepts
\* every push, ProcessLines returns, and when it has returned exactly M
\* events have been pushed, one for each input line, and nothing was reported.
C1_NoLossNoDuplication ==
    /\ [](pcMain = "returned" /\ NumParsers >= 1
            /\ (\A k \in 1..Len(input) : Valid(input[k]))
          => /\ Len(send) = Len(input)
             /\ \A id \in 1..Len(input) : Cardinality(EventsOf(id)) = 1
             /\ reports = <<>>)
    /\ (closed /\ NumParsers >= 1 ~> pcMain = "returned")

C1_Witness ==
    /\ pcMain = "returned"
    /\ NumParsers = 1
    /\ Len(input) = MaxLines
    /\ \A k \in 1..Len(input) : Valid(input[k])
    /\ Len(send) = MaxLines

\* no worker holds a line it has received
NoLineInFlight == \A w \in Workers : pc[w] \notin {"body", "send"}

\* C2: once the input is closed with no line pending, in the channel or in
\* a worker, ProcessLines eventually returns, every worker that was started
\* having left its loop; this needs nothing of the producer or the sink.
C2_ClosedEmptyTerminates ==
    (Drained /\ NoLineInFlight)
        ~> (pcMain = "returned" /\ \A w \in Workers : pc[w] \in {"unborn", "done"})

\* the channel is closed before any line was sent, and all workers have left
C2_Witness ==
    /\ pcMain = "returned"
    /\ NumParsers = MaxParsers
    /\ input = <<>>
    /\ \A w \in Workers : pc[w] = "done"

\* C3: a line still in the channel or held by a worker has no outcome yet,
\* and every other line sent has exactly one: one event and no report, or
\* one report and no event; only lines that pass every check have an event.
C3_ExactlyOneOutcome ==
    \A id \in 1..Len(input) :
        LET e == Cardinality(EventsOf(id))
            r == Cardinality(ReportsOf(id))
        IN  /\ InChannel(id) => e = 0 /\ r = 0 /\ HeldBy(id) = {}
            /\ ~InChannel(id) => Cardinality(HeldBy(id)) <= 1
            /\ HeldBy(id) # {} => e = 0 /\ r = 0
            /\ ~InChannel(id) /\ HeldBy(id) = {} => e + r = 1
            /\ e = 1 => Valid(input[id])
            /\ r = 1 => ~Valid(input[id])

C3_Witness ==
    /\ Len(input) = 2
    /\ Cardinality(EventsOf(1)) = 1
    /\ Cardinality(ReportsOf(2)) = 1
    /\ send[1].w # reports[1].w

\* C4: a worker leaves its loop only when the input is closed and drained,
\* so until then all NumParsers workers are alive once started; the worker
\* that makes a reporting call goes back to taking the next line; and when
\* ProcessLines has returned every valid line has its event, whatever other
\* lines were rejected.
C4_RejectionNeverStopsWorker ==
    /\ [](\A w \in Workers : pc[w] = "done" => Drained)
    /\ [](pcMain # "loop" /\ ~Drained => Cardinality(LiveWorkers) = NumParsers)
    /\ [][\A w \in Workers :
            pc[w] = "body" /\ Len(reports') > Len(reports) /\ reports'[Len(reports')].w = w
              => pc'[w] = "recv"]_vars
    /\ [](pcMain = "returned" /\ NumParsers >= 1
            => \A id \in 1..Len(input) :
                  Valid(input[id]) => Cardinality(EventsOf(id)) = 1)

C4_Witness ==
    /\ Len(input) = 2
    /\ ~Valid(input[1])
    /\ Valid(input[2])
    /\ Cardinality(ReportsOf(1)) = 1
    /\ Cardinality(EventsOf(2)) = 1
    /\ reports[1].w = send[1].w
    /\ pcMain = "returned"

\* C10: with NumParsers = 0 no worker is ever started, no line is taken from
\* the channel, nothing is pushed or reported, and ProcessLines can always
\* take its next step up to its return, whatever the state of the channel.
C10_ZeroParsers ==
    NumParsers = 0 =>
        /\ \A w \in Workers : pc[w] = "unborn"
        /\ wg = 0
        /\ Len(lines) = Len(input)
        /\ send = <<>>
        /\ reports = <<>>
        /\ pcMain = "loop" => ENABLED LoopExit /\ ~ENABLED Spawn
        /\ pcMain = "wait" => ENABLED WaitReturn

C10_Witness ==
    /\ NumParsers = 0
    /\ pcMain = "returned"
    /\ ~closed
    /\ Len(lines) = MaxLines

(***************************************************************************)
(* Properties of the loop body on one line (SpecLine).                     *)
(***************************************************************************)
Ran == tpc \in {"done", "done2"}

Filtered(res) == res.report.fn = "SkipWithFields"

\* what the loop hands to ParseLine, and what ParseLine makes of it
Headers   == TakeHeaders(prefixRegex, tline)
Tokenized == ParseLine(Headers.line)

\* C5: with no pattern configured every line passes the filter; with a
\* pattern P, a line L passes iff (P matches L) # InvertFilter; a line that
\* does not pass is reported as filtered, with the line, the reason and the
\* observed matched value, and gives no event.
C5_FilterDecision ==
    Ran =>
        LET pat     == p.conf.FilterRegex
            matches == Contains(tline, pat)
            passes  == pat = <<>> \/ (matches # p.conf.InvertFilter)
        IN  /\ passes <=> ~Filtered(tout)
            /\ Filtered(tout) =>
                 /\ tout.report = [fn |-> "SkipWithFields", line |-> tline,
                                   msg |-> "due to provided filter_regex",
                                   matched |-> IF matches THEN "true" ELSE "false"]
                 /\ ~tout.emit
                 /\ tout.event = NoEvent

C5_Witness ==
    /\ tpc = "done"
    /\ p.conf.FilterRegex = <<"=", "1">>
    /\ p.conf.InvertFilter
    /\ Filtered(tout)
    /\ tout.report.matched = "true"

\* C6 as stated: with a pattern configured, of the two runs on the same line
\* with InvertFilter false and true, exactly one gives an event.
C6_OppositeEventOutcomes ==
    tpc = "done2" /\ p.filterRegex.set => (tprev.emit # tout.emit)

\* C6 amended: with a pattern configured, exactly one of the two runs reports
\* the line as filtered and the other passes the filter; the two runs differ
\* in giving an event exactly when the line passes the rejection rules.
C6_OppositeFilterOutcomes ==
    tpc = "done2" /\ p.filterRegex.set =>
        /\ Filtered(tprev) # Filtered(tout)
        /\ (tprev.emit # tout.emit)
             <=> Rejection(Headers.line, Tokenized.parsed, Tokenized.err) = NoReport

C6_Witness ==
    /\ tpc = "done2"
    /\ p.filterRegex.set
    /\ tprev.emit
    /\ Filtered(tout)
    /\ tout.report.matched = "true"

\* C7: for a line that passed the filter: a tokenize error is reported as a
\* parse error whatever pairs were collected; otherwise zero pairs are
\* reported as "no key/val pairs found"; otherwise values that are all the
\* empty string are reported as "all values are the empty string"; these
\* give no event, and every other mapping gives an event and no report.
C7_RejectionOrder ==
    Ran /\ ~Filtered(tout) =>
        LET err    == Tokenized.err
            pairs  == Tokenized.parsed
            n      == Cardinality(DOMAIN pairs)
            allES  == \A k \in DOMAIN pairs : pairs[k] = StringV(<<>>)
        IN  /\ err # NoError =>
                 /\ tout.report = [fn |-> "ParseError", line |-> Headers.line,
                                   msg |-> err, matched |-> "unset"]
                 /\ ~tout.emit
            /\ err = NoError /\ n = 0 =>
                 /\ tout.report = [fn |-> "Skip", line |-> Headers.line,
                                   msg |-> "no key/val pairs found",
                                   matched |-> "unset"]
                 /\ ~tout.emit
            /\ err = NoError /\ n > 0 /\ allES =>
                 /\ tout.report = [fn |-> "Skip", line |-> Headers.line,
                                   msg |-> "all values are the empty string",
                                   matched |-> "unset"]
                 /\ ~tout.emit
            /\ err = NoError /\ n > 0 /\ ~allES =>
                 /\ tout.emit
                 /\ tout.report = NoReport
            /\ ~tout.emit => tout.event = NoEvent

\* a tokenize error after a pair was collected
C7_Witness ==
    /\ Ran
    /\ tout.report.fn = "ParseError"
    /\ \E k \in DOMAIN Tokenized.parsed : Tokenized.parsed[k].t # "string"

\* C8: in an emitted event every header key maps to the header's string
\* value, also when the tokenizer gave a value for that key, and every other
\* tokenized key keeps its tokenized value.
C8_HeaderPrecedence ==
    Ran /\ tout.emit =>
        LET hdr  == Headers.fields
            tok  == Tokenized.parsed
            data == tout.event.Data
        IN  /\ DOMAIN data = (DOMAIN tok) \cup (DOMAIN hdr)
            /\ \A k \in DOMAIN hdr : data[k] = StringV(hdr[k])
            /\ \A k \in (DOMAIN tok) \ (DOMAIN hdr) : data[k] = tok[k]

\* a header key the tokenizer also gave, with another value, beside a key
\* only the tokenizer gave
C8_Witness ==
    /\ Ran
    /\ tout.emit
    /\ \E k \in (DOMAIN Headers.fields) \cap (DOMAIN Tokenized.parsed) :
          Tokenized.parsed[k] # StringV(Headers.fields[k])
    /\ (DOMAIN Tokenized.parsed) \ (DOMAIN Headers.fields) # {}

(***************************************************************************)
(* Properties of ParseLine on k=<value> (SpecParse).                       *)
(***************************************************************************)
RawValue == SubSeq(tline, 3, Len(tline))
Stored   == tout.parsed[<<"k">>]

\* C9: the value is stored with the first of boolean, integer, float,
\* string whose parse of the raw text succeeds; "true" is a boolean, "42" an
\* integer, "3.14" a float, "42x" and the empty value strings; and ParseLine
\* returns no error from the value handler.
C9_TypeInference ==
    tpc = "done" =>
        /\ tout.err = NoError
        /\ DOMAIN tout.parsed = {<<"k">>}
        /\ Stored.t = IF ParseBoolOk(RawValue) THEN "bool"
                      ELSE IF AtoiOk(RawValue) THEN "int"
                      ELSE IF ParseFloatOk(RawValue) THEN "float"
                      ELSE "string"
        /\ Stored.t \in {"string", "float"} => Stored.s = RawValue
        /\ RawValue = <<"t", "r", "u", "e">> => Stored = BoolV(TRUE)
        /\ RawValue = <<"4", "2">> => Stored = IntV(42)
        /\ RawValue = <<"3", ".", "1", "4">> => Stored.t = "float"
        /\ RawValue = <<"4", "2", "x">> => Stored = StringV(RawValue)
        /\ RawValue = <<>> => Stored = StringV(<<>>)

C9_Witness ==
    /\ tpc = "done"
    /\ RawValue = <<"3", ".", "1", "4">>
    /\ Stored.t = "float"

(***************************************************************************)
(* Properties of Parser.Init and its caller (SpecStart).                   *)
(***************************************************************************)
\* the pattern handed to Init is not "" and has a ')' with no '(' open or a
\* '(' that is never closed
Malformed(pat) ==
    /\ pat # <<>>
    /\ \/ \E k \in 1..Len(pat) :
             Cardinality({j \in 1..k : pat[j] = ")"})
               > Cardinality({j \in 1..k : pat[j] = "("})
       \/ Cardinality({j \in 1..Len(pat) : pat[j] = "("})
            > Cardinality({j \in 1..Len(pat) : pat[j] = ")"})

\* C11: Init returns an error exactly when the pattern is not "" and does
\* not compile; after an Init that returned an error the pool is never
\* started: no worker exists, no line leaves the channel, nothing is pushed
\* or reported.
C11_InitErrorStopsPool ==
    /\ initErr # "uncalled" => (initErr # NoError <=> Malformed(opts.FilterRegex))
    /\ initErr \notin {"uncalled", NoError} =>
          /\ pcMain \in {"inited", "aborted"}
          /\ \A w \in Workers : pc[w] = "unborn"
          /\ Len(lines) = Len(input)
          /\ send = <<>>
          /\ reports = <<>>

\* Init failed on "a)", the caller gave up, and the lines sent stay unread
C11_Witness ==
    /\ pcMain = "aborted"
    /\ opts.FilterRegex = <<"a", ")">>
    /\ opts.NumParsers = MaxParsers
    /\ initErr = ErrRegexpSyntax
    /\ Len(lines) = MaxLines
    /\ closed

(***************************************************************************)
(* More properties of the loop body on one line (SpecLine).                *)
(***************************************************************************)
\* C12: every reporting call made for a rejected line carries the line
\* exactly as it was taken from the input, also when a prefix matcher is
\* configured and has matched a non-empty prefix.
C12_ReportsCarryOriginalLine ==
    Ran /\ tout.report # NoReport => tout.report.line = tline

\* C13: the all-values-empty check is made on the tokenized mapping, before
\* the header fields are merged: a line that tokenizes to one or more pairs
\* whose values are all the empty string is reported and gives no event,
\* whatever header fields the prefix matcher returned.
C13_AllEmptyBeforeMerge ==
    Ran /\ ~Filtered(tout) /\ Tokenized.err = NoError
        /\ DOMAIN Tokenized.parsed # {}
        /\ (\A k \in DOMAIN Tokenized.parsed : Tokenized.parsed[k] = StringV(<<>>))
      => /\ ~tout.emit
         /\ tout.event = NoEvent
         /\ tout.report.fn = "Skip"
         /\ tout.report.msg = "all values are the empty string"

\* such a line with a header field that is not empty
C13_Witness ==
    /\ Ran
    /\ tout.report.msg = "all values are the empty string"
    /\ \E k \in DOMAIN Headers.fields : Headers.fields[k] # <<>>

Range(s) == { s[n] : n \in 1..Len(s) }

\* the stages of the loop body in the order of the code (lines 84-138)
StageOrder ==
    << "MatchString", "SkipWithFields", "FindStringSubmatchMap", "ParseLine",
       "ParseError", "Skip", "merge", "GetTimestamp", "send" >>

StageRank(c) == CHOOSE n \in 1..Len(StageOrder) : StageOrder[n] = c

ReportingCalls == {"SkipWithFields", "ParseError", "Skip"}

\* C14: the stages of one line run in the order filter, prefix extraction,
\* tokenization, rejection rules, merge, timestamp resolution, push, each at
\* most once; a reporting call is the last thing done for the line; for a
\* line the filter rejects nothing but the filter and its report runs; and
\* the filter is decided on the line as taken from the input, before any
\* prefix is taken off.
C14_StageOrder ==
    Ran =>
      LET c == tout.calls
      IN  /\ \A n \in 1..Len(c) : c[n] \in Range(StageOrder)
          /\ \A m, n \in 1..Len(c) : m < n => StageRank(c[m]) < StageRank(c[n])
          /\ \A n \in 1..Len(c) : c[n] \in ReportingCalls => n = Len(c)
          /\ tout.report # NoReport <=> c[Len(c)] \in ReportingCalls
          /\ tout.emit <=> c[Len(c)] = "send"
          /\ tout.emit =>
                /\ Len(c) >= 4
                /\ SubSeq(c, Len(c) - 3, Len(c))
                     = <<"ParseLine", "merge", "GetTimestamp", "send">>
          /\ p.filterRegex.set <=> (Len(c) >= 1 /\ c[1] = "MatchString")
          /\ Filtered(tout) <=>
                (p.filterRegex.set
                   /\ MatchString(p.filterRegex, tline) = p.conf.InvertFilter)
          /\ Filtered(tout) => c = <<"MatchString", "SkipWithFields">>
          /\ ~Filtered(tout) =>
                /\ \E n \in 1..Len(c) : c[n] = "ParseLine"
                /\ prefixRegex.set <=>
                      \E n \in 1..Len(c) : c[n] = "FindStringSubmatchMap"

\* a line the filter rejects as taken from the input and would let through
\* without its prefix, with a prefix matcher that matches it
C14_Witness ==
    /\ Ran
    /\ Filtered(tout)
    /\ prefixRegex.set
    /\ Headers.line # tline
    /\ ~FilterSkips(p, Headers.line)
    /\ tout.calls = <<"MatchString", "SkipWithFields">>

\* the mapping after the merge loop, from the line as the code computes it
Merged == MergeFields(Tokenized.parsed, Headers.fields)

\* how many times the stage c ran for the line
Times(c) == Cardinality({ n \in 1..Len(tout.calls) : tout.calls[n] = c })

\* C15: for an emitted event GetTimestamp ran once, after the merge, on the
\* merged mapping with the configured field name and format; the event's
\* timestamp is what it returned and the event's data is that merged
\* mapping; for a rejected line GetTimestamp does not run.
C15_TimestampFromMergedMapping ==
    Ran =>
      /\ tout.emit =>
            /\ Times("GetTimestamp") = 1
            /\ Times("merge") = 1
            /\ tout.event.Timestamp
                 = GetTimestamp(Merged, p.conf.TimeFieldName,
                                p.conf.TimeFieldFormat)
            /\ tout.event.Timestamp.format = p.conf.TimeFieldFormat
            /\ tout.event.Data = Merged
      /\ ~tout.emit =>
            /\ Times("GetTimestamp") = 0
            /\ tout.event = NoEvent

\* an event whose time field is a header field that replaced a token of
\* another type
C15_Witness ==
    /\ Ran
    /\ tout.emit
    /\ p.conf.TimeFieldName \in DOMAIN Headers.fields
    /\ p.conf.TimeFieldName \in DOMAIN Tokenized.parsed
    /\ Tokenized.parsed[p.conf.TimeFieldName] # Merged[p.conf.TimeFieldName]
    /\ tout.event.Timestamp.src = "field"
    /\ tout.event.Timestamp.raw = Merged[p.conf.TimeFieldName]

(***************************************************************************)
(* More properties of the pool.                                            *)
(***************************************************************************)
\* C16: with NumParsers >= 1, when ProcessLines has returned the input is
\* closed and empty, every worker has left its loop, no worker holds a line
\* or an event, and every line of the input has its one outcome; and from
\* then on nothing is pushed to the sink, nothing is reported and no line is
\* taken.
C16_ReturnsAfterDrain ==
    /\ [](pcMain = "returned" /\ NumParsers >= 1 =>
            /\ Drained
            /\ \A w \in 1..NumParsers : pc[w] = "done"
            /\ \A w \in Workers : cur[w] = NoLine /\ ev[w] = NoEvent
            /\ wg = 0
            /\ \A k \in 1..Len(input) :
                  Cardinality(EventsOf(k)) + Cardinality(ReportsOf(k)) = 1)
    /\ [][pcMain = "returned" /\ NumParsers >= 1 =>
            /\ pcMain' = "returned"
            /\ send' = send
            /\ reports' = reports
            /\ lines' = lines
            /\ pc' = pc
            /\ cur' = cur]_vars

\* ProcessLines has returned with every worker started, after an event and
\* a report
C16_Witness ==
    /\ pcMain = "returned"
    /\ NumParsers = MaxParsers
    /\ Len(input) = MaxLines
    /\ Len(send) >= 1
    /\ Len(reports) >= 1

\* C17: a cancelled context changes nothing for the pool. A worker waiting
\* for a line takes one when there is one and cannot leave its loop while the
\* input is open or not empty, cancelled or not; a worker with a line goes on
\* with it; a worker has left its loop, and ProcessLines with NumParsers >= 1
\* has returned, only when the input has been closed.
C17_CancelHasNoEffect ==
    /\ \A w \in Workers :
          /\ pc[w] = "recv" /\ lines # <<>> => ENABLED Recv(w)
          /\ pc[w] = "recv" /\ ~Drained => ~ENABLED Exit(w)
          /\ pc[w] = "body" => ENABLED Body(w)
          /\ pc[w] = "send" => ENABLED Send(w)
          /\ pc[w] = "done" => closed
    /\ pcMain = "returned" /\ NumParsers >= 1 => closed
    /\ pcMain = "wait" /\ wg > 0 => ~ENABLED WaitReturn

\* the context is cancelled, the input is open, a worker waits for a line
\* and there is one for it
C17_Witness ==
    /\ ctxDone
    /\ ~closed
    /\ lines # <<>>
    /\ pcMain = "wait"
    /\ \E w \in Workers : pc[w] = "recv"

\* the lines taken from the input that have no outcome yet
Pending ==
    { k \in 1..Len(input) :
        ~InChannel(k) /\ EventsOf(k) = {} /\ ReportsOf(k) = {} }

\* C18: a worker that is sending an event takes no line, and the lines taken
\* from the input that are neither pushed to the sink nor reported are never
\* more than NumParsers; each of them is held by one worker.
C18_BackpressureBound ==
    /\ \A w \in Workers : pc[w] = "send" => ~ENABLED Recv(w)
    /\ Cardinality(Pending) <= NumParsers
    /\ \A k \in Pending : Cardinality(HeldBy(k)) = 1

\* the one worker is blocked at the sink, with the line it took pending and
\* another line waiting in the input
C18_Witness ==
    /\ NumParsers = 1
    /\ pc[1] = "send"
    /\ lines # <<>>
    /\ Cardinality(Pending) = 1

\* the sink got the event of a later line before that of an earlier one
Reordered ==
    \E j, k \in 1..Len(send) : j < k /\ send[j].id > send[k].id

\* C19: with NumParsers = 1 the events reach the sink in the order of their
\* lines in the input, the one worker taking a line only when every earlier
\* line has its outcome. (That the order can differ with NumParsers >= 2 is
\* the reachability of C19_Witness.)
C19_SingleWorkerKeepsOrder ==
    NumParsers = 1 =>
        /\ ~Reordered
        /\ \A k \in 1..Len(input) :
              HeldBy(k) # {} =>
                 \A j \in 1..(k - 1) :
                    Cardinality(EventsOf(j)) + Cardinality(ReportsOf(j)) = 1

\* two workers, and the event of the second line is in the sink before the
\* event of the first
C19_Witness ==
    /\ NumParsers >= 2
    /\ Len(send) = 2
    /\ send[1].id = 2
    /\ send[2].id = 1
    /\ Reordered

(***************************************************************************)
(* More properties of ParseLine on k=<value> (SpecParse).                  *)
(***************************************************************************)
OneCharBools == { <<"0">>, <<"1">>, <<"t">>, <<"f">>, <<"T">>, <<"F">> }

\* an optional sign and one or more decimal digits
IntLiteral(v) ==
    LET body == IF v # <<>> /\ v[1] \in {"+", "-"} THEN Tail(v) ELSE v
    IN  /\ body # <<>>
        /\ \A n \in 1..Len(body) :
              body[n] \in {"0", "1", "2", "3", "4", "5", "6", "7", "8", "9"}

\* C20: a value whose text is "0", "1", "t", "f", "T" or "F" is stored as a
\* boolean (true for "1", "t", "T"), not as an integer or a string; and a
\* value is stored as an integer exactly when its text is an integer literal
\* other than the texts "0" and "1" ("01" and "-1" are such texts, and are
\* stored as the integers 1 and -1).
C20_ZeroOneAreBooleans ==
    tpc = "done" =>
        /\ RawValue \in OneCharBools =>
              Stored = BoolV(RawValue \in { <<"1">>, <<"t">>, <<"T">> })
        /\ Stored.t = "int" <=>
              (IntLiteral(RawValue) /\ RawValue \notin { <<"0">>, <<"1">> })
        /\ RawValue = <<"0", "1">> => Stored = IntV(1)
        /\ RawValue = <<"-", "1">> => Stored = IntV(0 - 1)
        /\ RawValue = <<"7">> => Stored = IntV(7)

\* the value "1", stored as the boolean true
C20_Witness ==
    /\ tpc = "done"
    /\ RawValue = <<"1">>
    /\ Stored = BoolV(TRUE)
====
